---- MODULE Spec2Model ----
(***************************************************************************)
(* Model of Responder.chain (src/src/apiResponder.js, lines 98-192): the   *)
(* window resolver, the backward scan over the trailer window with its     *)
(* per-class accumulators, the neogenesis (epoch boundary) lookup that     *)
(* recovers the supply baseline, and the final derivation of the chain     *)
(* statistics.  Each await of the handler is a position of pc; the         *)
(* collaborators (trailer source, block database) answer by environment    *)
(* actions.                                                                *)
(***************************************************************************)
EXTENDS Integers, Sequences, FiniteSets, TLC

(* ------------------------------------------------------------------ *)
(* Program constants                                                    *)
(* ------------------------------------------------------------------ *)

\* const target = 768;
target == 768

\* bnum & 0xffn: the low 8 bits of the block number, i.e. bnum mod 256
NeogenesisPeriod == 256

(* ------------------------------------------------------------------ *)
(* Bounds of the model                                                  *)
(* ------------------------------------------------------------------ *)

\* ledger amounts a neogenesis document may carry: 0 .. MaxAmount
MaxAmount == 2

\* relative requests -1 .. -MaxRelative are issued besides the default
MaxRelative == 3

\* the trailer contents of the chain repeat with this period
GenPeriod == 2

\* the window resolver alone is exercised on -MaxRequest .. MaxRequest
MaxRequest == 1030

\* regions of a node's connection object
MaxRegions == 2

\* results of a search
MaxResults == 2

(* ------------------------------------------------------------------ *)
(* Optional values: undefined / null is <<>>, a value v is <<v>>        *)
(* ------------------------------------------------------------------ *)

Undefined == << >>

Some(v) == << v >>

Abs(n) == IF n < 0 THEN -n ELSE n

Min(a, b) == IF a < b THEN a ELSE b

RECURSIVE Pow2(_)
\* Math.pow(2, n) for small non-negative n (exact in a double, as are the
\* sums of the model)
Pow2(n) == IF n <= 0 THEN 1 ELSE 2 * Pow2(n - 1)

(* ------------------------------------------------------------------ *)
(* The economic model (apiUtils: blockReward, projectedSupply)          *)
(* ------------------------------------------------------------------ *)

\* reward(position) -> Amount: a pure function of the block position
blockReward(bnum) == 5 + (bnum \div NeogenesisPeriod)

\* projectedSupply(position?) -> Amount: an omitted argument (<<>>) means
\* the theoretical final supply
projectedSupply(obnum) ==
    IF obnum = Undefined THEN 50000 ELSE 1000 + 5 * obnum[1]

(* ------------------------------------------------------------------ *)
(* The chain the trailer source serves                                  *)
(* ------------------------------------------------------------------ *)

\* what a non-neogenesis trailer can carry: a pseudo block and two normal
\* blocks (tcount transactions at fee mfee, solved in dT seconds)
Shapes ==
    { [tcount |-> 0, mfee |-> 1, difficulty |-> 1, dT |-> 2],
      [tcount |-> 1, mfee |-> 1, difficulty |-> 2, dT |-> 1],
      [tcount |-> 2, mfee |-> 3, difficulty |-> 0, dT |-> 3] }

Gens == [0 .. GenPeriod - 1 -> Shapes]

\* the decoded trailer of block bnum on the chain generated by gen; a
\* neogenesis block carries no transactions
TrailerAt(g, bnum) ==
    LET s == g[bnum % GenPeriod]
        neo == bnum % NeogenesisPeriod = 0
    IN  [ bnum       |-> bnum,
          bhash      |-> bnum,
          mfee       |-> s.mfee,
          tcount     |-> IF neo THEN 0 ELSE s.tcount,
          difficulty |-> s.difficulty,
          time0      |-> 10 * bnum,
          stime      |-> 10 * bnum + s.dT ]

\* tfile.length / Mochimo.BlockTrailer.length
TfileCount(tf) == tf.len

\* tfile.trailer(index)
Trailer(tf, i) == TrailerAt(tf.gen, tf.first + i)

(* ------------------------------------------------------------------ *)
(* The requests of the model                                            *)
(* ------------------------------------------------------------------ *)

AbsoluteRequests == {0, 1, 255, 256, 257, 512, 1000}

RelativeRequests == { -n : n \in 1 .. MaxRelative }

\* chain heads met by relative requests
Heads == {100, 257, 768}

\* the newest block the node holds when the request arrives: for an absolute
\* request the node holds the requested block or is one block behind it
HeadsFor(aNumber, aHex) ==
    LET first == IF aNumber = Undefined THEN aHex ELSE aNumber
    IN  IF first # Undefined /\ first[1] >= 0
        THEN {first[1]} \cup (IF first[1] > 0 THEN {first[1] - 1} ELSE {})
        ELSE Heads

\* (blockNumber, blockHex) as the router hands them over: at most one is given
RequestArgs ==
    { << Undefined, Undefined >> }
    \cup { << Some(n), Undefined >> : n \in AbsoluteRequests \cup RelativeRequests }
    \cup { << Undefined, Some(n) >> : n \in {0, 1} }

(* ------------------------------------------------------------------ *)
(* Window resolver (lines 101-108)                                      *)
(* ------------------------------------------------------------------ *)

\* if (typeof blockNumber === 'undefined') blockNumber = blockHex;
\* if (typeof blockNumber === 'undefined') blockNumber = -target;
\* else blockNumber = Number(blockNumber);
RequestedNumber(aNumber, aHex) ==
    LET first == IF aNumber = Undefined THEN aHex ELSE aNumber
    IN  IF first = Undefined THEN -target ELSE first[1]

\* faulty variant: the comparison admits blockNumber = target to the short branch
WindowCount_Inclusive(bn) == IF bn <= target THEN Abs(bn) + 1 ELSE target

\* const count = blockNumber < target ? Math.abs(blockNumber) + 1 : target;
WindowCount(bn) == IF bn < target THEN Abs(bn) + 1 ELSE target

\* const start = blockNumber > -1 ? blockNumber - (count - 1) : blockNumber;
WindowStart(bn, cnt) == IF bn > -1 THEN bn - (cnt - 1) ELSE bn

(* ------------------------------------------------------------------ *)
(* Classification and accumulation (lines 128-139)                      *)
(* ------------------------------------------------------------------ *)

\* if (bnum & 0xffn)   -- NON-(NEO)GENSIS block type
NonNeogenesis(bnum) == bnum % NeogenesisPeriod # 0

\* faulty variant: every non-neogenesis block is taken for a normal block
IsNormal_Always(tcount) == tcount >= 0

\* if (tcount)         -- NORMAL block types, else PSEUDO block types
IsNormal(tcount) == tcount # 0

\* const dT = trailer.stime - trailer.time0;
SolveTime(t) == t.stime - t.time0

\* rewards += blockReward(bnum) + (mfee * BigInt(tcount));
MinerReward(t) == blockReward(t.bnum) + t.mfee * t.tcount

(* ------------------------------------------------------------------ *)
(* Supply reconciliation (lines 139-150)                                *)
(* ------------------------------------------------------------------ *)

\* } else if (!supply) {   -- supply is undefined (or 0n)
SupplyMissing(s) == IF s = Undefined THEN TRUE ELSE s[1] = 0

\* if (ng && ng.amount)    -- a document carrying a truthy (non-zero) amount
HasAmount(ng) == ng # Undefined /\ ng[1] # 0

\* supply = ng.amount + rewards;
SupplyOf(amount, rew) == amount + rew

\* faulty variant: the two projections exchanged
MaxSupplyOf_Swapped(rbnum, s) ==
    projectedSupply(Some(rbnum)) - (projectedSupply(Undefined) - s)

\* const lostsupply = projectedSupply(rTrailer.bnum) - supply;
\* const maxsupply = projectedSupply() - lostsupply;
MaxSupplyOf(rbnum, s) ==
    LET lostsupply == projectedSupply(Some(rbnum)) - s
    IN  projectedSupply(Undefined) - lostsupply

(* ------------------------------------------------------------------ *)
(* Derived metrics of the requested block (lines 155-181)               *)
(* ------------------------------------------------------------------ *)

\* const isNeogenesis = Boolean(!(bnum & 0xffn));
IsNeogenesis(bnum) == bnum % NeogenesisPeriod = 0

\* json.blocktime = isNeogenesis ? 0 : stime - time0;
BlockTimeOf(t) == IF IsNeogenesis(t.bnum) THEN 0 ELSE t.stime - t.time0

\* json.txfees = isNeogenesis ? 0 : BigInt(tcount) * mfee;
TxFeesOf(t) == IF IsNeogenesis(t.bnum) THEN 0 ELSE t.tcount * t.mfee

\* json.reward = isNeogenesis ? 0 : blockReward(bnum);
RewardOf(t) == IF IsNeogenesis(t.bnum) THEN 0 ELSE blockReward(t.bnum)

\* json.mreward = isNeogenesis ? 0 : json.txfees + json.reward;
MRewardOf(t) == IF IsNeogenesis(t.bnum) THEN 0 ELSE TxFeesOf(t) + RewardOf(t)

\* a / b as handed to round(): the quotient is kept as the pair of its
\* operands (a zero divisor is passed through, not guarded)
Ratio(a, b) == << a, b >>

(* ------------------------------------------------------------------ *)
(* State                                                                *)
(* ------------------------------------------------------------------ *)

VARIABLES
    pc,             \* position of the handler: entry, getTfile, scan, findOne, done
    argNumber,      \* the blockNumber argument (optional)
    argHex,         \* the blockHex argument (optional)
    blockNumber,    \* blockNumber after conversion
    count,          \* tfile parameter
    start,          \* tfile parameter
    head,           \* position of the newest block the node holds
    gen,            \* contents of the chain the node serves
    tfile,          \* the fetched window (optional): [first, len, gen]
    rTrailer,       \* the newest trailer of the window (optional)
    supply,         \* optional
    rewards,
    pseudorate,
    nonNeogenesis,
    transactions,
    blockTimes,
    hashesTimes,
    hashes,
    difficulties,
    index,
    chain,          \* optional: [maxsupply, supply]
    lookups,        \* history: the block lookups issued, each with the document
                    \* it returned (<<>> when it returned none or raised)
    scanned,        \* history: number of trailers visited by the loop
    fetched,        \* history: how getTfile ended: "no", "returned", "threw"
    responses,      \* the responses sent: sequence of [status, body]
    handler,        \* the handler the router called
    params,         \* the arguments of a handler other than chain
    cursor,         \* search: let cursor (optional)
    self,           \* the invocation of the handler that is running
    suspended       \* the other invocations: for each, its locals as it left
                    \* them at its await (or as it will start with them)

accumulators ==
    << rewards, pseudorate, nonNeogenesis, transactions, blockTimes,
       hashesTimes, hashes, difficulties >>

request == << argNumber, argHex, head, gen >>

history == << lookups, scanned, fetched >>

scheduler == << self, suspended >>

dispatch == << handler, params, cursor >>

vars ==
    << pc, argNumber, argHex, blockNumber, count, start, head, gen, tfile,
       rTrailer, supply, rewards, pseudorate, nonNeogenesis, transactions,
       blockTimes, hashesTimes, hashes, difficulties, index, chain, lookups,
       scanned, fetched, responses, handler, params, cursor, self,
       suspended >>

\* the state of a handler that has not run yet
Fresh ==
    /\ pc = "entry"
    /\ blockNumber = 0 /\ count = 0 /\ start = 0
    /\ tfile = Undefined /\ rTrailer = Undefined
    /\ supply = Undefined /\ chain = Undefined
    /\ rewards = 0 /\ pseudorate = 0 /\ nonNeogenesis = 0
    /\ transactions = 0 /\ blockTimes = 0 /\ hashesTimes = 0
    /\ hashes = 0 /\ difficulties = 0
    /\ index = 0
    /\ lookups = << >> /\ scanned = 0 /\ fetched = "no" /\ responses = << >>

\* one invocation of the handler and no other
Alone == self = 1 /\ suspended = << >>

\* the router called Responder.chain
ChainCalled == handler = "chain" /\ params = << >> /\ cursor = Undefined

Init ==
    /\ \E args \in RequestArgs : argNumber = args[1] /\ argHex = args[2]
    /\ head \in HeadsFor(argNumber, argHex)
    /\ gen \in Gens
    /\ Fresh
    /\ Alone
    /\ ChainCalled

(* ------------------------------------------------------------------ *)
(* Responses (lines 49-82, 268-279)                                     *)
(* ------------------------------------------------------------------ *)

\* Responder._respond(res, statusCode, json)
Respond(statusCode, body) ==
    responses' = Append(responses, [status |-> statusCode, body |-> body])

\* return Responder._respond(res, chain ? 200 : 404, chain ||
\*   { message: 'chain data unavailable...' });
RespondChain(result) ==
    IF result # Undefined
    THEN Respond(200, result[1])
    ELSE Respond(404, [message |-> "chain data unavailable..."])

\* Responder.unknownInternal(res, error)
UnknownInternal == Respond(500, [message |-> "unexpected error"])

(* ------------------------------------------------------------------ *)
(* Actions                                                              *)
(* ------------------------------------------------------------------ *)

\* lines 101-109: resolve the window and ask the node for it
Resolve ==
    /\ handler = "chain"
    /\ pc = "entry"
    /\ LET bn == RequestedNumber(argNumber, argHex)
           cnt == WindowCount(bn)
       IN  /\ blockNumber' = bn
           /\ count' = cnt
           /\ start' = WindowStart(bn, cnt)
    /\ pc' = "getTfile"
    /\ UNCHANGED << dispatch, scheduler, request,
                    tfile, rTrailer, supply, accumulators, index,
                    chain, history, responses >>

\* Mochimo.getTfile(process.env.FULLNODE, start, count): what a node holding
\* blocks 0 .. h returns.  A non-negative start names a position, a negative
\* start counts back from the newest block; the node sends the trailers it
\* holds of the requested range, or nothing when it holds none of them.
NodeTfile(h, g, st, cnt) ==
    LET first == IF st >= 0 THEN st ELSE IF h - cnt + 1 < 0 THEN 0 ELSE h - cnt + 1
        last  == IF st >= 0 THEN Min(st + cnt - 1, h) ELSE h
    IN  IF first > last
        THEN Undefined
        ELSE Some([first |-> first, len |-> last - first + 1, gen |-> g])

\* faulty variant: the window is taken as it comes
ContainsRequested_Unchecked(bn, rbnum) == TRUE

\* if (blockNumber < 0 || blockNumber === Number(rTrailer.bnum))
ContainsRequested(bn, rbnum) == IF bn < 0 THEN TRUE ELSE bn = rbnum

\* line 109 resumes with the tfile; lines 110-124 check it and set up the scan
GetTfileReturns ==
    /\ pc = "getTfile"
    /\ \E tf \in {Undefined, NodeTfile(head, gen, start, count)} :
        /\ tfile' = tf
        /\ IF tf = Undefined
           THEN \* if (tfile) fails: chain stays undefined
                /\ RespondChain(chain)
                /\ pc' = "done"
                /\ UNCHANGED << rTrailer, index >>
           ELSE LET tfileCount == TfileCount(tf[1])
                    last == Trailer(tf[1], tfileCount - 1)
                IN  /\ rTrailer' = Some(last)
                    /\ IF ContainsRequested(blockNumber, last.bnum)
                       THEN \* let index = tfile.length / ...; for (index--; ...
                            /\ index' = tfileCount - 1
                            /\ pc' = "scan"
                            /\ UNCHANGED responses
                       ELSE /\ RespondChain(chain)
                            /\ pc' = "done"
                            /\ UNCHANGED index
    /\ fetched' = "returned"
    /\ UNCHANGED << dispatch, scheduler, request,
                    blockNumber, count, start, supply, accumulators,
                    chain, lookups, scanned >>

\* line 109 raises (the node cannot be reached): catch (error), line 191
GetTfileThrows ==
    /\ pc = "getTfile"
    /\ UnknownInternal
    /\ pc' = "done"
    /\ fetched' = "threw"
    /\ UNCHANGED << dispatch, scheduler, request,
                    blockNumber, count, start, tfile, rTrailer,
                    supply, accumulators, index, chain, lookups, scanned >>

\* faulty variant: the loop ends once supply is known (a break after line 149)
LoopContinues_UntilSupply == index >= 0 /\ SupplyMissing(supply)

\* for (index--; index >= 0; index--)
LoopContinues == index >= 0

\* lines 126-138: one iteration of the loop on a non-neogenesis trailer
ScanNonNeogenesis ==
    /\ pc = "scan"
    /\ LoopContinues
    /\ LET trailer == Trailer(tfile[1], index)
           dT == SolveTime(trailer)
       IN  /\ NonNeogenesis(trailer.bnum)
           /\ difficulties' = difficulties + trailer.difficulty
           /\ blockTimes' = blockTimes + dT
           /\ nonNeogenesis' = nonNeogenesis + 1
           /\ IF IsNormal(trailer.tcount)
              THEN /\ transactions' = transactions + trailer.tcount
                   /\ hashesTimes' = hashesTimes + dT
                   /\ hashes' = hashes + Pow2(trailer.difficulty)
                   /\ rewards' = rewards + MinerReward(trailer)
                   /\ UNCHANGED pseudorate
              ELSE /\ pseudorate' = pseudorate + 1
                   /\ UNCHANGED << transactions, hashesTimes, hashes, rewards >>
    /\ index' = index - 1
    /\ scanned' = scanned + 1
    /\ UNCHANGED << pc, dispatch, scheduler, request,
                    blockNumber, count, start, tfile, rTrailer,
                    supply, chain, lookups, fetched, responses >>

\* lines 139-142: a neogenesis trailer while supply is missing: query the
\* block database and wait for its answer
ScanNeogenesisQuery ==
    /\ pc = "scan"
    /\ LoopContinues
    /\ LET trailer == Trailer(tfile[1], index)
       IN  /\ ~NonNeogenesis(trailer.bnum)
           /\ SupplyMissing(supply)
    /\ pc' = "findOne"
    /\ scanned' = scanned + 1
    /\ UNCHANGED << dispatch, scheduler, request,
                    blockNumber, count, start, tfile, rTrailer,
                    supply, accumulators, index, chain, lookups, fetched,
                    responses >>

\* line 139, else-if not taken: a neogenesis trailer once supply is known
ScanNeogenesisSkip ==
    /\ pc = "scan"
    /\ LoopContinues
    /\ LET trailer == Trailer(tfile[1], index)
       IN  /\ ~NonNeogenesis(trailer.bnum)
           /\ ~SupplyMissing(supply)
    /\ index' = index - 1
    /\ scanned' = scanned + 1
    /\ UNCHANGED << pc, dispatch, scheduler, request,
                    blockNumber, count, start, tfile, rTrailer,
                    supply, accumulators, chain, lookups, fetched, responses >>

\* the answers of Db.findOne('block', query): no document (<<>>) or a
\* document with its amount
Answers == {Undefined} \cup { Some(a) : a \in 0 .. MaxAmount }

\* lines 142-150: the database answers; a found amount fixes supply
FindOneReturns ==
    /\ pc = "findOne"
    /\ \E ng \in Answers :
        LET trailer == Trailer(tfile[1], index)
        IN  /\ lookups' = Append(lookups,
                    [bnum |-> trailer.bnum, bhash |-> trailer.bhash, ng |-> ng])
            /\ IF HasAmount(ng)
               THEN LET s == SupplyOf(ng[1], rewards)
                    IN  /\ supply' = Some(s)
                        /\ chain' = Some([maxsupply |-> MaxSupplyOf(rTrailer[1].bnum, s),
                                          supply |-> s])
               ELSE UNCHANGED << supply, chain >>
    /\ index' = index - 1
    /\ pc' = "scan"
    /\ UNCHANGED << dispatch, scheduler, request,
                    blockNumber, count, start, tfile, rTrailer,
                    accumulators, scanned, fetched, responses >>

\* faulty variant: the error of the query is not caught at line 151 and reaches the
\* handler's catch at line 191
FindOneThrows_Propagated ==
    /\ pc = "findOne"
    /\ LET trailer == Trailer(tfile[1], index)
       IN  lookups' = Append(lookups,
                [bnum |-> trailer.bnum, bhash |-> trailer.bhash, ng |-> Undefined])
    /\ UnknownInternal
    /\ pc' = "done"
    /\ UNCHANGED << dispatch, scheduler, request,
                    blockNumber, count, start, tfile, rTrailer,
                    supply, accumulators, index, chain, scanned, fetched >>

\* lines 140-151: the query raises; catch (ignore) {} drops the error
FindOneThrows ==
    /\ pc = "findOne"
    /\ LET trailer == Trailer(tfile[1], index)
       IN  lookups' = Append(lookups,
                [bnum |-> trailer.bnum, bhash |-> trailer.bhash, ng |-> Undefined])
    /\ index' = index - 1
    /\ pc' = "scan"
    /\ UNCHANGED << dispatch, scheduler, request,
                    blockNumber, count, start, tfile, rTrailer,
                    supply, accumulators, chain, scanned, fetched, responses >>

\* lines 155-183: the statistics of the requested block, merged with chain
ChainJSON(t, c) ==
    [ bnum           |-> t.bnum,
      bhash          |-> t.bhash,
      mfee           |-> t.mfee,
      time0          |-> t.time0,
      stime          |-> t.stime,
      blocktime      |-> BlockTimeOf(t),
      blocktime_avg  |-> Ratio(blockTimes, nonNeogenesis),
      tcount         |-> t.tcount,
      tcount_avg     |-> Ratio(transactions, nonNeogenesis),
      tcountpsec     |-> Ratio(t.tcount, BlockTimeOf(t)),
      tcountpsec_avg |-> Ratio(transactions, blockTimes),
      txfees         |-> TxFeesOf(t),
      reward         |-> RewardOf(t),
      mreward        |-> MRewardOf(t),
      difficulty     |-> t.difficulty,
      difficulty_avg |-> Ratio(difficulties, nonNeogenesis),
      hashrate       |-> IF t.tcount = 0 THEN Ratio(0, 1)
                         ELSE Ratio(Pow2(t.difficulty), BlockTimeOf(t)),
      hashrate_avg   |-> Ratio(hashes, hashesTimes),
      pseudorate_avg |-> Ratio(pseudorate, nonNeogenesis),
      maxsupply      |-> c.maxsupply,
      supply         |-> c.supply ]

\* lines 153-190: the loop is over; derive the statistics and respond
Finish ==
    /\ pc = "scan"
    /\ ~LoopContinues
    /\ RespondChain(IF chain # Undefined
                    THEN Some(ChainJSON(rTrailer[1], chain[1]))
                    ELSE Undefined)
    /\ pc' = "done"
    /\ UNCHANGED << dispatch, scheduler, request,
                    blockNumber, count, start, tfile, rTrailer,
                    supply, accumulators, index, chain, history >>

Next ==
    \/ Resolve
    \/ GetTfileReturns
    \/ GetTfileThrows
    \/ ScanNonNeogenesis
    \/ ScanNeogenesisQuery
    \/ ScanNeogenesisSkip
    \/ FindOneReturns
    \/ FindOneThrows
    \/ Finish

Spec == Init /\ [][Next]_vars

(* ------------------------------------------------------------------ *)
(* The window resolver on its own: every request -MaxRequest ..         *)
(* MaxRequest and the request without a position                        *)
(* ------------------------------------------------------------------ *)

InitResolver ==
    /\ argNumber \in {Undefined} \cup { Some(n) : n \in -MaxRequest .. MaxRequest }
    /\ argHex = Undefined
    /\ head = 0
    /\ gen = [i \in 0 .. GenPeriod - 1 |->
                [tcount |-> 0, mfee |-> 1, difficulty |-> 1, dT |-> 2]]
    /\ Fresh
    /\ Alone
    /\ ChainCalled

NextResolver == Resolve

SpecResolver == InitResolver /\ [][NextResolver]_vars

(* ------------------------------------------------------------------ *)
(* Several invocations of the handler, interleaved at their awaits      *)
(* (line 98: async chain; lines 109 and 142: await)                     *)
(* ------------------------------------------------------------------ *)

\* the invocations in flight
Invocations == {1, 2}

\* the requests they serve: relative ones whose window crosses block 256 ...
ShortArgs == { << Some(-1), Undefined >>, << Some(-3), Undefined >> }

\* ... and one whose window holds two neogenesis blocks
LongArgs == { << Some(257), Undefined >> }

\* the newest block of the node that serves them all
ConcurrentHeads == {257}

\* the chains it serves: two different shapes, one at the positions that are
\* multiples of GenPeriod and one at the others
ConcurrentGens ==
    { [i \in 0 .. GenPeriod - 1 |-> IF i = 0 THEN p[1] ELSE p[2]] :
        p \in { q \in Shapes \X Shapes : q[1] # q[2] } }

\* the parameters and local bindings of the running invocation (line 98,
\* lines 107-124)
Frame ==
    [ pc |-> pc, argNumber |-> argNumber, argHex |-> argHex,
      blockNumber |-> blockNumber, count |-> count, start |-> start,
      tfile |-> tfile, rTrailer |-> rTrailer, supply |-> supply,
      rewards |-> rewards, pseudorate |-> pseudorate,
      nonNeogenesis |-> nonNeogenesis, transactions |-> transactions,
      blockTimes |-> blockTimes, hashesTimes |-> hashesTimes,
      hashes |-> hashes, difficulties |-> difficulties, index |-> index,
      chain |-> chain, lookups |-> lookups, scanned |-> scanned,
      fetched |-> fetched, responses |-> responses ]

\* the frame of an invocation that has not run yet
FreshFrame(args) ==
    [ pc |-> "entry", argNumber |-> args[1], argHex |-> args[2],
      blockNumber |-> 0, count |-> 0, start |-> 0,
      tfile |-> Undefined, rTrailer |-> Undefined, supply |-> Undefined,
      rewards |-> 0, pseudorate |-> 0, nonNeogenesis |-> 0,
      transactions |-> 0, blockTimes |-> 0, hashesTimes |-> 0, hashes |-> 0,
      difficulties |-> 0, index |-> 0, chain |-> Undefined,
      lookups |-> << >>, scanned |-> 0, fetched |-> "no",
      responses |-> << >> ]

\* faulty variant: supply and the accumulators are bindings of the module,
\* one set for every invocation
OwnAccumulators_Shared(f) == UNCHANGED << supply, accumulators >>

\* lines 115-123: let supply; let rewards = 0n; ... let difficulties = 0;
\* are declared inside the handler: the invocation that resumes finds the
\* bindings it left
OwnAccumulators(f) ==
    /\ supply' = f.supply
    /\ rewards' = f.rewards
    /\ pseudorate' = f.pseudorate
    /\ nonNeogenesis' = f.nonNeogenesis
    /\ transactions' = f.transactions
    /\ blockTimes' = f.blockTimes
    /\ hashesTimes' = f.hashesTimes
    /\ hashes' = f.hashes
    /\ difficulties' = f.difficulties

\* the invocation of frame f runs on: its parameters, its other bindings, its
\* response object and its position are its own
Resume(f) ==
    /\ pc' = f.pc
    /\ argNumber' = f.argNumber
    /\ argHex' = f.argHex
    /\ blockNumber' = f.blockNumber
    /\ count' = f.count
    /\ start' = f.start
    /\ tfile' = f.tfile
    /\ rTrailer' = f.rTrailer
    /\ index' = f.index
    /\ chain' = f.chain
    /\ lookups' = f.lookups
    /\ scanned' = f.scanned
    /\ fetched' = f.fetched
    /\ responses' = f.responses
    /\ OwnAccumulators(f)

\* the running invocation waits at an await (lines 109, 142) or has returned
Yields == pc \in {"getTfile", "findOne", "done"}

\* the running invocation yields and invocation j starts or runs on
Switch(j) ==
    /\ Yields
    /\ j \in DOMAIN suspended
    /\ suspended[j].pc # "done"
    /\ Resume(suspended[j])
    /\ self' = j
    /\ suspended' = [i \in (DOMAIN suspended \ {j}) \cup {self} |->
                        IF i = self THEN Frame ELSE suspended[i]]
    /\ UNCHANGED << head, gen, dispatch >>

InitConcurrent ==
    /\ \E args \in ShortArgs \cup LongArgs :
            argNumber = args[1] /\ argHex = args[2]
    /\ head \in ConcurrentHeads
    /\ gen \in ConcurrentGens
    /\ Fresh
    /\ self = 1
    /\ ChainCalled
    /\ suspended \in [Invocations \ {1} -> { FreshFrame(a) : a \in ShortArgs }]

NextConcurrent ==
    \/ Next
    \/ \E j \in Invocations : Switch(j)

SpecConcurrent == InitConcurrent /\ [][NextConcurrent]_vars

(* ------------------------------------------------------------------ *)
(* The other handlers: block, ledger, network, search, transaction      *)
(* (lines 83-97, 193-267)                                               *)
(* ------------------------------------------------------------------ *)

OtherHandlers == {"block", "ledger", "network", "search", "transaction"}

\* block(res, blockNumber, blockHex): a position is given or not, and when
\* given BigInt() converts it or raises
BlockParams ==
    { [given |-> FALSE, convertible |-> TRUE] }
    \cup { [given |-> TRUE, convertible |-> b] : b \in BOOLEAN }

\* network(res, status, ip): status is left out, 'active', or something else
NetworkParams == { [status |-> st] : st \in {"undefined", "active", "other"} }

\* search(cName, paged, res, ...args) as searchBlock ... searchTransaction
\* call it
SearchParams ==
    { [cName |-> "block", paged |-> 1], [cName |-> "ledger", paged |-> 1],
      [cName |-> "network", paged |-> 0], [cName |-> "richlist", paged |-> 1],
      [cName |-> "transaction", paged |-> 1] }

ParamsOf(h) ==
    CASE h = "block" -> BlockParams
      [] h = "ledger" -> { [isTag |-> b] : b \in BOOLEAN }
      [] h = "network" -> NetworkParams
      [] h = "search" -> SearchParams
      [] h = "transaction" -> { [txid |-> "txid"] }

\* the bindings of chain, which the other handlers do not have
chainLocals ==
    << request, blockNumber, count, start, tfile, rTrailer, supply,
       accumulators, index, chain, history >>

\* the handler h is at position at
At(h, at) == handler = h /\ pc = at

\* Responder._respond(res, found ? 200 : 404, found || { message: ... })
RespondFound(found) ==
    IF found
    THEN Respond(200, [message |-> "found"])
    ELSE Respond(404, [message |-> "could not be found..."])

\* catch (error) { Responder.unknownInternal(res, error); } ends the handler
Caught ==
    /\ UnknownInternal
    /\ pc' = "done"
    /\ UNCHANGED << dispatch, scheduler, chainLocals >>

\* lines 84-91: block up to its await; BigInt(blockNumber) may raise
BlockEntry ==
    /\ At("block", "entry")
    /\ IF params.given /\ ~params.convertible
       THEN UnknownInternal /\ pc' = "done"
       ELSE pc' = "query" /\ UNCHANGED responses
    /\ UNCHANGED << dispatch, scheduler, chainLocals >>

\* lines 91-95: Db.findOne('block', query) answers
BlockFindOneReturns ==
    /\ At("block", "query")
    /\ \E found \in BOOLEAN : RespondFound(found)
    /\ pc' = "done"
    /\ UNCHANGED << dispatch, scheduler, chainLocals >>

\* line 91 raises: catch, line 96
BlockFindOneThrows == At("block", "query") /\ Caught

\* lines 194-197: ledger up to its await
LedgerEntry ==
    /\ At("ledger", "entry")
    /\ pc' = "query"
    /\ UNCHANGED << responses, dispatch, scheduler, chainLocals >>

\* lines 197-206: Mochimo.getBalance answers with an entry or with nothing;
\* createHash(...).update(address) raises for an entry without address
LedgerGetBalanceReturns ==
    /\ At("ledger", "query")
    /\ \E le \in {"none", "entry", "entry without address"} :
        IF le = "entry without address"
        THEN UnknownInternal
        ELSE RespondFound(le = "entry")
    /\ pc' = "done"
    /\ UNCHANGED << dispatch, scheduler, chainLocals >>

\* line 197 raises: catch, line 207
LedgerGetBalanceThrows == At("ledger", "query") /\ Caught

\* lines 210-214: network up to its await
NetworkEntry ==
    /\ At("network", "entry")
    /\ pc' = "query"
    /\ UNCHANGED << responses, dispatch, scheduler, chainLocals >>

\* a region of node.connection: its status is falsy ("ok") or truthy
\* ("not ok"), or the region is null
Regions == {"ok", "not ok", "null"}

\* node.connection: missing, null, a string, or an object of regions
Connections ==
    { [kind |-> k, regions |-> << >>] : k \in {"undefined", "null", "string"} }
    \cup { [kind |-> "object", regions |-> r] :
            r \in UNION { [1 .. n -> Regions] : n \in 0 .. MaxRegions } }

\* the document Db.findOne('network', ...) returns, if any
Nodes == {Undefined} \cup { Some([connection |-> c]) : c \in Connections }

\* typeof node.connection === 'object'  (true of null as well)
TypeofObject(c) == c.kind \in {"object", "null"}

\* Object.values(node.connection) raises for undefined and null
ValuesThrows(c) == c.kind \in {"undefined", "null"}

\* the _respond call on rs
Sent(rs, statusCode, body) ==
    Append(rs, [status |-> statusCode, body |-> body])

RECURSIVE RegionLoop(_, _, _, _)
\* lines 223-228: for (const region of Object.values(node.connection)),
\* from the i-th value on, then line 231; a null region raises at
\* region.status and the catch of line 233 responds
RegionLoop(rs, regions, i, node) ==
    IF i > Len(regions)
    THEN Sent(rs, 200, node)
    ELSE IF regions[i] = "null"
    THEN Sent(rs, 500, [message |-> "unexpected error"])
    ELSE IF regions[i] = "not ok"
    THEN Sent(rs, 404, [message |-> "node is not OK in all regions..."])
    ELSE RegionLoop(rs, regions, i + 1, node)

\* lines 216-232 after the await: the _respond calls made on rs, in order.
\* The values of a string are its characters, which have no status.
NetworkResponds(rs, status, node) ==
    IF node # Undefined /\ status = "active"
    THEN LET c == node[1].connection
             \* lines 218-221: unknownInternal, and the handler goes on
             checked == IF TypeofObject(c)
                        THEN rs
                        ELSE Sent(rs, 500, [message |-> "unexpected error"])
         IN  IF ValuesThrows(c)
             THEN \* catch, line 233
                  Sent(checked, 500, [message |-> "unexpected error"])
             ELSE RegionLoop(checked, c.regions, 1, node[1])
    ELSE IF node # Undefined
    THEN Sent(rs, 200, node[1])
    ELSE Sent(rs, 404, [message |-> "could not be found..."])

\* lines 214-232: Db.findOne('network', ...) answers
NetworkFindOneReturns ==
    /\ At("network", "query")
    /\ \E node \in Nodes :
        responses' = NetworkResponds(responses, params.status, node)
    /\ pc' = "done"
    /\ UNCHANGED << dispatch, scheduler, chainLocals >>

\* line 214 raises: catch, line 233
NetworkFindOneThrows == At("network", "query") /\ Caught

\* lines 260-262: transaction up to its await
TransactionEntry ==
    /\ At("transaction", "entry")
    /\ pc' = "query"
    /\ UNCHANGED << responses, dispatch, scheduler, chainLocals >>

\* lines 262-265: Db.findOne('transaction', { txid }) answers
TransactionFindOneReturns ==
    /\ At("transaction", "query")
    /\ \E found \in BOOLEAN : RespondFound(found)
    /\ pc' = "done"
    /\ UNCHANGED << dispatch, scheduler, chainLocals >>

\* line 262 raises: catch, line 266
TransactionFindOneThrows == At("transaction", "query") /\ Caught

\* lines 236-242: search up to its first await; Interpreter.search may raise
SearchEntry ==
    /\ At("search", "entry")
    /\ \/ pc' = "find" /\ UNCHANGED responses
       \/ UnknownInternal /\ pc' = "finally"
    /\ UNCHANGED << dispatch, scheduler, chainLocals >>

\* line 242: Db.find answers with a cursor
SearchFindReturns ==
    /\ At("search", "find")
    /\ cursor' = Some("open")
    /\ pc' = "expand"
    /\ UNCHANGED << handler, params, responses, scheduler, chainLocals >>

\* line 242 raises: catch, line 247, then finally
SearchFindThrows ==
    /\ At("search", "find")
    /\ UnknownInternal
    /\ pc' = "finally"
    /\ UNCHANGED << dispatch, scheduler, chainLocals >>

\* lines 243-246: expandResults answers with n results; reading the cursor
\* to its end may close it
SearchExpandReturns ==
    /\ At("search", "expand")
    /\ \E n \in 0 .. MaxResults :
        IF n > 0
        THEN Respond(200, [results |-> n])
        ELSE Respond(404, [results |-> n])
    /\ cursor' \in {Some("open"), Some("closed")}
    /\ pc' = "finally"
    /\ UNCHANGED << handler, params, scheduler, chainLocals >>

\* line 243 raises: catch, line 247, then finally
SearchExpandThrows ==
    /\ At("search", "expand")
    /\ UnknownInternal
    /\ pc' = "finally"
    /\ UNCHANGED << dispatch, scheduler, chainLocals >>

\* lines 249-251: finally { if (cursor && !cursor.isClosed()) await
\* cursor.close(); } -- whether close() returns or raises, nothing is sent
SearchFinally ==
    /\ At("search", "finally")
    /\ cursor' = IF cursor # Undefined THEN Some("closed") ELSE cursor
    /\ pc' = "done"
    /\ UNCHANGED << handler, params, responses, scheduler, chainLocals >>

\* the router calls one of the handlers
InitHandlers ==
    /\ Fresh
    /\ Alone
    /\ \/ /\ ChainCalled
          /\ \E a \in ShortArgs \cup LongArgs :
                argNumber = a[1] /\ argHex = a[2]
          /\ head \in ConcurrentHeads
          /\ gen \in ConcurrentGens
       \/ /\ handler \in OtherHandlers
          /\ params \in ParamsOf(handler)
          /\ cursor = Undefined
          /\ argNumber = Undefined /\ argHex = Undefined
          /\ head = 0
          /\ gen = [i \in 0 .. GenPeriod - 1 |->
                      [tcount |-> 0, mfee |-> 1, difficulty |-> 1, dT |-> 2]]

NextHandlers ==
    \/ Next
    \/ BlockEntry
    \/ BlockFindOneReturns
    \/ BlockFindOneThrows
    \/ LedgerEntry
    \/ LedgerGetBalanceReturns
    \/ LedgerGetBalanceThrows
    \/ NetworkEntry
    \/ NetworkFindOneReturns
    \/ NetworkFindOneThrows
    \/ TransactionEntry
    \/ TransactionFindOneReturns
    \/ TransactionFindOneThrows
    \/ SearchEntry
    \/ SearchFindReturns
    \/ SearchFindThrows
    \/ SearchExpandReturns
    \/ SearchExpandThrows
    \/ SearchFinally

SpecHandlers == InitHandlers /\ [][NextHandlers]_vars

(* ------------------------------------------------------------------ *)
(* Vocabulary of the properties                                         *)
(* ------------------------------------------------------------------ *)

\* the classes of the data model, by position and transaction count
EpochBoundary(t) == t.bnum % 256 = 0

Pseudo(t) == t.bnum % 256 # 0 /\ t.tcount = 0

Normal(t) == t.bnum % 256 # 0 /\ t.tcount > 0

\* the window the scan runs over, once it has been accepted
Scanning == pc \in {"scan", "findOne"}

Scanned == pc = "done" /\ fetched = "returned" /\ tfile # Undefined
           /\ (blockNumber < 0 \/ rTrailer[1].bnum = blockNumber)

WindowLen == tfile[1].len

Record(i) == Trailer(tfile[1], i)

RECURSIVE SumLayers(_, _, _)
\* the sum of F over S for F >= 0, counted by layers: the number of i with
\* F(i) >= v, then of those with F(i) >= v + 1, and so on
SumLayers(F(_), S, v) ==
    LET L == { i \in S : F(i) >= v }
    IN  IF L = {} THEN 0 ELSE Cardinality(L) + SumLayers(F, L, v + 1)

\* F(lo) + ... + F(hi)
SumOver(F(_), lo, hi) == SumLayers(F, lo .. hi, 1)

\* a lookup that returned a document with an amount, whatever the amount
ReturnedAmount(l) == l.ng # Undefined

\* a lookup that returned nothing or raised
Failed(l) == l.ng = Undefined

\* the first lookup that returned an amount
FirstReturned ==
    lookups[CHOOSE i \in 1 .. Len(lookups) :
                /\ ReturnedAmount(lookups[i])
                /\ \A j \in 1 .. i - 1 : ~ReturnedAmount(lookups[j])]

\* index in the window of the block at position bnum
IndexOf(bnum) == bnum - tfile[1].first

\* reward(position) + miningFee * transactionCount of a Normal record, 0 otherwise
NormalReward(i) ==
    LET r == Record(i)
    IN  IF Normal(r) THEN blockReward(r.bnum) + r.mfee * r.tcount ELSE 0

\* the one response sent is a StatsResult / is Unavailable
Result == responses[1].body

Produced == Len(responses) = 1 /\ responses[1].status = 200

Unavailable == Len(responses) = 1 /\ responses[1].status = 404

(* ------------------------------------------------------------------ *)
(* C1                                                                   *)
(* ------------------------------------------------------------------ *)

\* C1: whenever some lookup of the scan returned an amount, a result is
\* reported whose supply is that amount plus the rewards and fees of the
\* Normal records strictly newer than the boundary that was looked up.
C1_SupplyFromAnyAmount ==
    (Scanned /\ \E i \in 1 .. Len(lookups) : ReturnedAmount(lookups[i])) =>
        /\ Produced
        /\ Result.supply =
              FirstReturned.ng[1]
              + SumOver(NormalReward, IndexOf(FirstReturned.bnum) + 1, WindowLen - 1)

\* the same statement for the amounts the handler accepts (non-zero ones)
C1_SupplyFromNonZeroAmount ==
    (Scanned /\ \E i \in 1 .. Len(lookups) : HasAmount(lookups[i].ng)) =>
        LET found == lookups[Len(lookups)]
        IN  /\ Produced
            /\ HasAmount(found.ng)
            /\ Result.supply =
                  found.ng[1]
                  + SumOver(NormalReward, IndexOf(found.bnum) + 1, WindowLen - 1)

(* ------------------------------------------------------------------ *)
(* C2                                                                   *)
(* ------------------------------------------------------------------ *)

\* C2 as stated: maxSupply = projectedSupply(target position)
\*                           - (projectedSupply() - supply)
C2_MaxSupplyAsStated ==
    (Scanned /\ Produced) =>
        Result.maxsupply =
            projectedSupply(Some(rTrailer[1].bnum))
            - (projectedSupply(Undefined) - Result.supply)

\* C2 amended: maxSupply = projectedSupply() - (projectedSupply(target
\* position) - supply): the final supply minus the supply lost so far
C2_MaxSupply ==
    (Scanned /\ Produced) =>
        Result.maxsupply =
            projectedSupply(Undefined)
            - (projectedSupply(Some(rTrailer[1].bnum)) - Result.supply)

\* a result for a target block below the final projected supply
C2_Witness ==
    /\ Scanned /\ Produced
    /\ Result.bnum = 1000
    /\ projectedSupply(Some(Result.bnum)) # projectedSupply(Undefined)

(* ------------------------------------------------------------------ *)
(* C3, C4 (window resolver)                                             *)
(* ------------------------------------------------------------------ *)

Resolved == pc # "entry"

\* C3: a relative request p < 0 (the default being -768) yields
\* count = |p| and start = p, so the default asks for exactly 768 records
C3_RelativeWindow ==
    (Resolved /\ blockNumber < 0) =>
        /\ count = Abs(blockNumber)
        /\ start = blockNumber
        /\ (argNumber = Undefined /\ argHex = Undefined => count = 768)

\* C4: an absolute request p >= 0 yields (p + 1, 0) below W = 768 and
\* (W, p - (W - 1)) from W on; so 1 <= count <= W, start >= 0 and the
\* window ends at p
C4_AbsoluteWindow ==
    (Resolved /\ blockNumber >= 0) =>
        /\ blockNumber < 768 => count = blockNumber + 1 /\ start = 0
        /\ blockNumber >= 768 => count = 768 /\ start = blockNumber - 767
        /\ 1 <= count /\ count <= 768
        /\ start >= 0
        /\ start + count - 1 = blockNumber

\* an absolute request at the window size itself has been resolved
C4_Witness == Resolved /\ argNumber = Some(768) /\ count = 768 /\ start = 1

(* ------------------------------------------------------------------ *)
(* C5                                                                   *)
(* ------------------------------------------------------------------ *)

\* getTfile returned nothing, or a window whose newest record is not the
\* block an absolute request asked for
InputMismatch ==
    /\ fetched = "returned"
    /\ \/ tfile = Undefined
       \/ blockNumber >= 0 /\ rTrailer[1].bnum # blockNumber

\* C5: on such a window the handler answers Unavailable at once: no record
\* is scanned and no lookup is issued
C5_MismatchUnavailable ==
    InputMismatch =>
        /\ pc = "done"
        /\ Unavailable
        /\ scanned = 0
        /\ lookups = << >>
        /\ nonNeogenesis = 0

\* an absolute request answered by a window that ends one block early
C5_Witness ==
    /\ InputMismatch
    /\ tfile # Undefined
    /\ blockNumber = 1000
    /\ rTrailer[1].bnum = 999

(* ------------------------------------------------------------------ *)
(* C6                                                                   *)
(* ------------------------------------------------------------------ *)

\* the EpochBoundary records of the window
Boundaries == { i \in 0 .. WindowLen - 1 : EpochBoundary(Record(i)) }

AllLookupsFailed == \A i \in 1 .. Len(lookups) : Failed(lookups[i])

\* C6: when every lookup returns nothing or raises, the outcome is
\* Unavailable (not an error response), after exactly one lookup per
\* EpochBoundary record of the window, at most count / 256 + 1 of them
C6_AllFailUnavailable ==
    (Scanned /\ AllLookupsFailed) =>
        /\ Unavailable
        /\ Len(lookups) = Cardinality(Boundaries)
        /\ Len(lookups) <= count \div 256 + 1
        /\ (Boundaries = {} => lookups = << >>)

\* a window of 769 records with four boundaries, each looked up in vain
C6_Witness ==
    /\ Scanned /\ AllLookupsFailed
    /\ WindowLen = 769
    /\ Len(lookups) = 4

\* a window without any boundary: Unavailable after no lookup at all
C6_WitnessNoBoundary ==
    Scanned /\ Boundaries = {} /\ Unavailable /\ lookups = << >>

(* ------------------------------------------------------------------ *)
(* C7                                                                   *)
(* ------------------------------------------------------------------ *)

\* C7: lookups go from newer to older boundaries, each boundary at most
\* once, a boundary only after every newer one failed, and none after a
\* lookup that returned an amount
C7_LookupOrder ==
    \A i, j \in 1 .. Len(lookups) :
        i < j => /\ lookups[i].bnum > lookups[j].bnum
                 /\ Failed(lookups[i])

\* the same with "failed" read as the handler reads it: no document, an
\* error, or an amount of zero
C7_LookupOrderNonZero ==
    \A i, j \in 1 .. Len(lookups) :
        i < j => /\ lookups[i].bnum > lookups[j].bnum
                 /\ ~HasAmount(lookups[i].ng)

(* ------------------------------------------------------------------ *)
(* C8                                                                   *)
(* ------------------------------------------------------------------ *)

ZeroBlockMetrics ==
    /\ Result.blocktime = 0
    /\ Result.reward = 0
    /\ Result.txfees = 0
    /\ Result.mreward = 0

\* C8: a window of one record at a multiple of 256 whose lookup returns an
\* amount produces a result with supply = that amount and blockTime,
\* blockReward, transactionFees, totalBlockReward all 0; and every result
\* for an EpochBoundary target has these four at 0
C8_BoundaryTarget ==
    /\ (/\ Scanned
        /\ WindowLen = 1
        /\ EpochBoundary(Record(0))
        /\ Len(lookups) = 1
        /\ ReturnedAmount(lookups[1])) =>
            /\ Produced
            /\ Result.supply = lookups[1].ng[1]
            /\ ZeroBlockMetrics
    /\ (Scanned /\ Produced /\ EpochBoundary(rTrailer[1])) => ZeroBlockMetrics

\* the same for the amounts the handler accepts (non-zero ones)
C8_BoundaryTargetNonZero ==
    /\ (/\ Scanned
        /\ WindowLen = 1
        /\ EpochBoundary(Record(0))
        /\ Len(lookups) = 1
        /\ HasAmount(lookups[1].ng)) =>
            /\ Produced
            /\ Result.supply = lookups[1].ng[1]
            /\ ZeroBlockMetrics
    /\ (Scanned /\ Produced /\ EpochBoundary(rTrailer[1])) => ZeroBlockMetrics

(* ------------------------------------------------------------------ *)
(* C9                                                                   *)
(* ------------------------------------------------------------------ *)

NonBoundaryCount(i) == IF EpochBoundary(Record(i)) THEN 0 ELSE 1

PseudoCount(i) == IF Pseudo(Record(i)) THEN 1 ELSE 0

TransactionCount(i) ==
    LET r == Record(i) IN IF Normal(r) THEN r.tcount ELSE 0

BlockTime(i) ==
    LET r == Record(i) IN IF EpochBoundary(r) THEN 0 ELSE r.stime - r.time0

HashWeightedTime(i) ==
    LET r == Record(i) IN IF Normal(r) THEN r.stime - r.time0 ELSE 0

Difficulty(i) ==
    LET r == Record(i) IN IF EpochBoundary(r) THEN 0 ELSE r.difficulty

HashCount(i) ==
    LET r == Record(i) IN IF Normal(r) THEN Pow2(r.difficulty) ELSE 0

\* the accumulators and the averaged metrics cover exactly the records
\* lo .. WindowLen - 1 of the window
Covers(lo) ==
    LET hi == WindowLen - 1
    IN  /\ nonNeogenesis = SumOver(NonBoundaryCount, lo, hi)
        /\ pseudorate = SumOver(PseudoCount, lo, hi)
        /\ transactions = SumOver(TransactionCount, lo, hi)
        /\ blockTimes = SumOver(BlockTime, lo, hi)
        /\ difficulties = SumOver(Difficulty, lo, hi)
        /\ hashesTimes = SumOver(HashWeightedTime, lo, hi)
        /\ hashes = SumOver(HashCount, lo, hi)
        /\ (Produced =>
              /\ Result.blocktime_avg = << blockTimes, nonNeogenesis >>
              /\ Result.tcount_avg = << transactions, nonNeogenesis >>
              /\ Result.tcountpsec_avg = << transactions, blockTimes >>
              /\ Result.difficulty_avg = << difficulties, nonNeogenesis >>
              /\ Result.hashrate_avg = << hashes, hashesTimes >>
              /\ Result.pseudorate_avg = << pseudorate, nonNeogenesis >>)

\* the boundary whose lookup fixed supply (the last lookup issued)
FoundIndex == IndexOf(lookups[Len(lookups)].bnum)

\* C9 as stated: the scan stops at the boundary whose lookup succeeded; the
\* accumulators cover only the records from the target back to it
C9_StopsAtBoundary ==
    (Scanned /\ Produced) => Covers(FoundIndex)

\* C9 amended: the scan does not stop when supply is determined: every
\* record of the window is visited, and the accumulators and the averaged
\* metrics cover the whole window, the records older than the boundary
\* whose lookup succeeded included
C9_CoversWholeWindow ==
    Scanned =>
        /\ scanned = WindowLen
        /\ Covers(0)

\* a result whose boundary has pseudo and normal records older than it in the window
C9_Witness ==
    /\ Scanned /\ Produced
    /\ FoundIndex > 1
    /\ SumOver(PseudoCount, 0, FoundIndex) > 0
    /\ SumOver(TransactionCount, 0, FoundIndex) > 0

(* ------------------------------------------------------------------ *)
(* C10                                                                  *)
(* ------------------------------------------------------------------ *)

\* what one step does to the accumulators, by the class of the visited record
StepRule ==
    IF pc = "scan" /\ index >= 0 /\ index' = index - 1
    THEN LET t == Record(index)
             d == t.stime - t.time0
         IN  /\ EpochBoundary(t) => UNCHANGED accumulators
             /\ Pseudo(t) =>
                  /\ nonNeogenesis' = nonNeogenesis + 1
                  /\ pseudorate' = pseudorate + 1
                  /\ blockTimes' = blockTimes + d
                  /\ difficulties' = difficulties + t.difficulty
                  /\ UNCHANGED << transactions, hashesTimes, hashes, rewards >>
             /\ Normal(t) =>
                  /\ nonNeogenesis' = nonNeogenesis + 1
                  /\ blockTimes' = blockTimes + d
                  /\ hashesTimes' = hashesTimes + d
                  /\ difficulties' = difficulties + t.difficulty
                  /\ transactions' = transactions + t.tcount
                  /\ hashes' = hashes + Pow2(t.difficulty)
                  /\ rewards' = rewards + blockReward(t.bnum) + t.mfee * t.tcount
                  /\ UNCHANGED pseudorate
    ELSE UNCHANGED accumulators

AccumulatorOrder ==
    /\ pseudorate <= nonNeogenesis
    /\ hashesTimes <= blockTimes

\* C10: every step changes the accumulators by the rule of the visited
\* record's class and by nothing else; pseudoCount <= normalTimeCount and
\* hashWeightedTimeSum <= blockTimeSum hold throughout
C10_ClassRules ==
    AccumulatorOrder /\ [][StepRule /\ AccumulatorOrder']_vars

\* pseudo and normal records and a boundary have been visited
C10_Witness ==
    /\ pseudorate > 0
    /\ pseudorate < nonNeogenesis
    /\ hashesTimes < blockTimes
    /\ transactions > 0
    /\ lookups # << >>

(* ------------------------------------------------------------------ *)
(* C11                                                                  *)
(* ------------------------------------------------------------------ *)

\* the locals of invocation i, running or suspended
LocalsOf(i) == IF i = self THEN Frame ELSE suspended[i]

\* supply and the accumulators among the locals f
AccumulatorsOf(f) ==
    << f.supply, f.rewards, f.pseudorate, f.nonNeogenesis, f.transactions,
       f.blockTimes, f.hashesTimes, f.hashes, f.difficulties >>

\* the step is one of invocation i's own code
OwnStep(i) == self = i /\ self' = i

\* the first lookup whose amount the handler took
FirstTaken ==
    lookups[CHOOSE i \in 1 .. Len(lookups) :
                /\ HasAmount(lookups[i].ng)
                /\ \A j \in 1 .. i - 1 : ~HasAmount(lookups[j].ng)]

\* supply and maxsupply of a run on its own over the window fetched, given
\* the outcomes of the lookups
AloneChain ==
    IF \E i \in 1 .. Len(lookups) : HasAmount(lookups[i].ng)
    THEN LET s == FirstTaken.ng[1]
                  + SumOver(NormalReward, IndexOf(FirstTaken.bnum) + 1, WindowLen - 1)
         IN  Some([maxsupply |-> MaxSupplyOf(Record(WindowLen - 1).bnum, s),
                   supply |-> s])
    ELSE Undefined

\* the running invocation has returned, and what it sent is what a run on
\* its own sends for the same window and lookup outcomes
AsAlone ==
    /\ Len(responses) = 1
    /\ IF fetched = "threw"
       THEN responses[1].status = 500
       ELSE IF Scanned
       THEN /\ Covers(0)
            /\ chain = AloneChain
            /\ IF chain # Undefined
               THEN /\ responses[1].status = 200
                    /\ Result = ChainJSON(Record(WindowLen - 1), chain[1])
               ELSE responses[1].status = 404
       ELSE responses[1].status = 404

\* no step that is not invocation i's own changes its supply or accumulators
\* while its lookup is pending, or what it sent once it has returned
Untouched ==
    \A i \in Invocations :
        ~OwnStep(i) =>
            /\ LocalsOf(i).pc = "findOne" =>
                    AccumulatorsOf(LocalsOf(i))' = AccumulatorsOf(LocalsOf(i))
            /\ LocalsOf(i).pc = "done" =>
                    LocalsOf(i).responses' = LocalsOf(i).responses

\* C11: when several chain requests interleave at their awaits, each uses
\* its own accumulators: a step of one request leaves the supply and the
\* accumulators of a request whose lookup is pending as they were, and each
\* request sends the result it would send running alone on the same window
\* and lookup outcomes.
C11_OwnAccumulators ==
    /\ [](pc = "done" => AsAlone)
    /\ [][Untouched]_vars

\* two requests wait for their lookups at the same time, with different
\* accumulators, the one that started first having been resumed
C11_Witness ==
    /\ self = 1
    /\ pc = "findOne"
    /\ suspended[2].pc = "findOne"
    /\ AccumulatorsOf(suspended[2]) # AccumulatorsOf(Frame)
    /\ suspended[2].nonNeogenesis > 0
    /\ nonNeogenesis > 0

(* ------------------------------------------------------------------ *)
(* C12                                                                  *)
(* ------------------------------------------------------------------ *)

\* the handler has returned
Returned == pc = "done"

\* C12: every invocation of a handler makes exactly one _respond call
\* (one writeHead/end pair) on every path, the paths through unknownInternal
\* included: never a second one, and one by the time the handler returns.
C12_ExactlyOneResponse ==
    /\ Len(responses) <= 1
    /\ Returned => Len(responses) = 1

\* network called with status 'active'
NetworkActive ==
    IF handler = "network" THEN params.status = "active" ELSE FALSE

\* the same for every call but network with status 'active'
C12_ExactlyOneResponseElsewhere == ~NetworkActive => C12_ExactlyOneResponse

\* network with status 'active' sends two responses only after a first
\* 'unexpected error' one
C12_SecondOnlyAfterError ==
    /\ Len(responses) <= 2
    /\ Len(responses) = 2 => responses[1].status = 500

====
